---- MODULE Spec2Model ----
(***************************************************************************)
(* Random Weather server (src/server.ts, kept as src/unnamed/part_000).     *)
(*                                                                         *)
(* The model follows the event loop: one action per continuation of the    *)
(* GET /api/randomWeather handler, from one await to the next.  The three   *)
(* await points are fetch() (resolves on response headers), response.json() *)
(* (resolves on the complete body) and sleep().                            *)
(*                                                                         *)
(* An optional JavaScript value (T | null | undefined) is a sequence of     *)
(* length at most one: <<>> is null/undefined, <<v>> is the value v.        *)
(***************************************************************************)
EXTENDS Integers, Sequences, FiniteSets, TLC

VARIABLES file, proc, cities, arrivals, req, view

vars == <<file, proc, cities, arrivals, req, view>>

----------------------------------------------------------------------------
(* Bounds of the model.                                                    *)

\* requests that clients may send
NumReqs == 2
\* clicks on the fetch button of the browser view
MaxClicks == 5
\* the longest hourly.time array the weather service returns
MaxHours == 26

Reqs == 1..NumReqs

(* Program constants.                                                      *)
maxAttempts == 10
HourlyLimit == 24

Min(a, b) == IF a < b THEN a ELSE b

----------------------------------------------------------------------------
(* The city dataset: data/cities.json as the process finds it at start.    *)

CityA == [name |-> "Aville", country |-> "Aland", latitude |-> 10, longitude |-> 20, population |-> 1000]
CityB == [name |-> "Bburg", country |-> "Bland", latitude |-> 30, longitude |-> 40, population |-> 2000]

\* kind: "missing" (readFileSync throws), "garbage" (JSON.parse throws),
\* "null" (the file holds the JSON text null), "array" (a JSON array).
DataFiles ==
    { [kind |-> "missing", items |-> <<>>],
      [kind |-> "garbage", items |-> <<>>],
      [kind |-> "null", items |-> <<>>],
      [kind |-> "array", items |-> <<>>],
      [kind |-> "array", items |-> <<CityA>>],
      [kind |-> "array", items |-> <<CityA, CityB>>] }

\* try { readFileSync; JSON.parse; cities.length } catch { process.exit(1) }
LoadExits(f) == f.kind \in {"missing", "garbage", "null"}

\* floor(Math.random() * cities.length), Math.random() in [0, 1)
RandomIndices(cs) == IF Len(cs) = 0 THEN {0} ELSE 0..(Len(cs) - 1)

\* cities[index]; undefined when the index is outside the array
getRandomCity(cs, index) ==
    IF index + 1 \in DOMAIN cs THEN <<cs[index + 1]>> ELSE <<>>

----------------------------------------------------------------------------
(* Upstream services.  A response is tagged with the coordinates of the     *)
(* request it answers (qlat, qlon).                                         *)

ResponseOk(status) == status >= 200 /\ status <= 299

UpstreamStatuses == {200, 429, 500}

PlaceName(lat, lon) == IF lat = 10 THEN "Aville, Aland" ELSE "Bburg, Bland"
CountryOf(lat, lon) == IF lat = 10 THEN "Aland" ELSE "Bland"
TimezoneOf(lat, lon) == IF lat = 10 THEN "Asia/Tokyo" ELSE "Europe/Paris"

\* kind: "reset" (the body stream fails), "garbage" (not JSON),
\* "null" (the JSON text null), "object" (a JSON object).
\* lat, lon are the geocoder's own coordinates of the matched place.
NoGeoObject(kind, lat, lon) ==
    [kind |-> kind, display_name |-> <<>>, address |-> <<>>,
     lat |-> 0, lon |-> 0, qlat |-> lat, qlon |-> lon]

GeoBodies(lat, lon) ==
    { NoGeoObject(k, lat, lon) : k \in {"reset", "garbage", "null"} }
    \cup
    { [kind |-> "object", display_name |-> dn, address |-> ad,
       lat |-> lat + 1, lon |-> lon + 1, qlat |-> lat, qlon |-> lon] :
        dn \in {<<>>, <<"">>, <<PlaceName(lat, lon)>>},
        ad \in {<<>>, <<[country |-> <<>>]>>, <<[country |-> <<"">>]>>,
                <<[country |-> <<CountryOf(lat, lon)>>]>>} }

\* JavaScript truthiness of an optional string
Truthy(m) == m # <<>> /\ m[1] # ""

----------------------------------------------------------------------------
(* Weather service bodies.                                                  *)

Times(n) == [i \in 1..n |-> 1000 + i]
Temps(n) == [i \in 1..n |-> 200 + i]
Winds(n) == [i \in 1..n |-> 500 + i]

\* a parallel array as the service may deliver it: absent, complete, or
\* one entry short
ParallelArrays(arr) ==
    {<<>>, <<arr>>} \cup (IF Len(arr) > 0 THEN {<<SubSeq(arr, 1, Len(arr) - 1)>>} ELSE {})

HourlySections ==
    { [time |-> <<>>, temperature_2m |-> <<>>, wind_speed_10m |-> <<>>] }
    \cup
    UNION { { [time |-> <<Times(n)>>, temperature_2m |-> t, wind_speed_10m |-> w] :
                t \in ParallelArrays(Temps(n)), w \in ParallelArrays(Winds(n)) } :
            n \in 0..MaxHours }

FullHourly(n) ==
    [time |-> <<Times(n)>>, temperature_2m |-> <<Temps(n)>>, wind_speed_10m |-> <<Winds(n)>>]

CurrentSections ==
    { [temperature_2m |-> <<15>>, wind_speed_10m |-> <<5>>],
      [temperature_2m |-> <<>>, wind_speed_10m |-> <<>>] }

NoWxObject(kind, lat, lon) ==
    [kind |-> kind, timezone |-> <<>>, current |-> <<>>, hourly |-> <<>>,
     qlat |-> lat, qlon |-> lon]

WxObject(cur, hourly, lat, lon) ==
    [kind |-> "object", timezone |-> <<TimezoneOf(lat, lon)>>,
     current |-> cur, hourly |-> hourly, qlat |-> lat, qlon |-> lon]

\* bodies in which a whole section is missing
PartialWxBodies(lat, lon) ==
    { WxObject(<<>>, h, lat, lon) : h \in {<<>>, <<FullHourly(2)>>} }
    \cup
    { WxObject(<<c>>, <<>>, lat, lon) : c \in CurrentSections }

\* bodies with both sections, whatever is inside them
SectionedWxBodies(lat, lon) ==
    { WxObject(<<c>>, <<h>>, lat, lon) : c \in CurrentSections, h \in HourlySections }

WxBodies(lat, lon) ==
    { NoWxObject(k, lat, lon) : k \in {"reset", "garbage", "null"} }
    \cup PartialWxBodies(lat, lon)
    \cup SectionedWxBodies(lat, lon)

----------------------------------------------------------------------------
(* The outcome of one upstream call, as the client function sees it.        *)
(* how: "abort" (the timer fired), "neterr" (fetch rejected),               *)
(*      "status" (a non-2xx status), "body" (a 2xx status and a body).      *)

Outcome(how, status, body) == [how |-> how, status |-> status, body |-> body]

\* variant: the country is not required
reverseGeocodeResultAnyCountry(b) ==
    IF b.kind # "object"
    THEN <<>>
    ELSE IF Truthy(b.display_name)
         THEN <<[displayName |-> b.display_name[1],
                 country |-> IF b.address # <<>> /\ b.address[1].country # <<>>
                             THEN b.address[1].country[1] ELSE ""]>>
         ELSE <<>>

\* reverseGeocode: what it returns for a body read after a 2xx status
reverseGeocodeResult(b) ==
    IF b.kind # "object"
    THEN <<>>
    ELSE IF Truthy(b.display_name) /\ b.address # <<>> /\ Truthy(b.address[1].country)
         THEN <<[displayName |-> b.display_name[1], country |-> b.address[1].country[1]]>>
         ELSE <<>>

\* fetchWeather: what it returns for a body read after a 2xx status
fetchWeatherResult(b) == IF b.kind = "object" THEN <<b>> ELSE <<>>

\* !weatherData || !weatherData.current || !weatherData.hourly
WeatherCheckFails(wd) == wd = <<>> \/ wd[1].current = <<>> \/ wd[1].hourly = <<>>

\* variant: the parallel arrays are read one position too far
ElementAtNext(arr, i) == IF i + 1 \in DOMAIN arr[1] THEN <<arr[1][i + 1]>> ELSE <<>>

\* array[index] of an optional array that is present: undefined past its end
ElementAt(arr, i) == IF i \in DOMAIN arr[1] THEN <<arr[1][i]>> ELSE <<>>

\* variant: the slice is left out, every entry is returned
SliceLimitUncut(time) == time

\* hourly.time.slice(0, 24)
SliceLimit(time) == SubSeq(time, 1, Min(HourlyLimit, Len(time)))

\* the TypeErrors of the hourly build: .slice of an undefined time, [index]
\* of an undefined temperature_2m or wind_speed_10m
HourlyBuildThrows(h) ==
    \/ h.time = <<>>
    \/ /\ Len(SliceLimit(h.time[1])) > 0
       /\ (h.temperature_2m = <<>> \/ h.wind_speed_10m = <<>>)

hourlyForecast(h) ==
    LET sliced == SliceLimit(h.time[1])
    IN  [i \in 1..Len(sliced) |->
            [time |-> sliced[i],
             temperature |-> ElementAt(h.temperature_2m, i),
             windSpeed |-> ElementAt(h.wind_speed_10m, i)]]

GeocodingSource == "OpenStreetMap Nominatim (https://nominatim.openstreetmap.org)"
WeatherSource == "Open-Meteo (https://open-meteo.com)"

\* variant: the two coordinates of chosenPlace are exchanged
WeatherResponseSwapped(city, geoResult, weatherData) ==
    [chosenPlace |->
        [displayName |-> geoResult.displayName,
         country |-> geoResult.country,
         latitude |-> city.longitude,
         longitude |-> city.latitude,
         timezone |-> weatherData.timezone],
     forecast |->
        [current |->
            [temperature |-> weatherData.current[1].temperature_2m,
             temperatureUnit |-> "degrees C",
             windSpeed |-> weatherData.current[1].wind_speed_10m,
             windSpeedUnit |-> "km/h"],
         hourly |-> hourlyForecast(weatherData.hourly[1])],
     dataSources |-> [geocoding |-> GeocodingSource, weather |-> WeatherSource]]

WeatherResponse(city, geoResult, weatherData) ==
    [chosenPlace |->
        [displayName |-> geoResult.displayName,
         country |-> geoResult.country,
         latitude |-> city.latitude,
         longitude |-> city.longitude,
         timezone |-> weatherData.timezone],
     forecast |->
        [current |->
            [temperature |-> weatherData.current[1].temperature_2m,
             temperatureUnit |-> "degrees C",
             windSpeed |-> weatherData.current[1].wind_speed_10m,
             windSpeedUnit |-> "km/h"],
         hourly |-> hourlyForecast(weatherData.hourly[1])],
     dataSources |-> [geocoding |-> GeocodingSource, weather |-> WeatherSource]]

ServiceUnavailable ==
    [error |-> "Service Unavailable",
     message |-> "Unable to resolve a valid location after multiple attempts. The geocoding service may be temporarily unavailable or rate-limited. Please try again in a few moments."]

----------------------------------------------------------------------------
(* One request of GET /api/randomWeather.                                   *)
(*                                                                         *)
(* pc: "idle"      not received yet                                         *)
(*     "geoFetch"  reverseGeocode awaits fetch()                            *)
(*     "geoBody"   reverseGeocode awaits response.json()                    *)
(*     "wxFetch"   fetchWeather awaits fetch()                              *)
(*     "wxBody"    fetchWeather awaits response.json()                      *)
(*     "sleep"     the handler awaits sleep(retryDelay)                     *)
(*     "done"      the handler returned                                     *)
(*     "threw"     an exception left the handler                            *)
(* attempt, city, geoResult, weatherData are the handler's locals; timer    *)
(* is the setTimeout of fetchWithTimeout (TRUE while it can fire); call is  *)
(* the query of the upstream request in flight; res is the response sent.   *)
(* The other fields record history: sent counts the responses written,      *)
(* draws the getRandomCity calls, sleeps the sleep calls, sleptAfter the    *)
(* attempts a sleep followed, fails the attempts that ended in continue,    *)
(* geoInvoked/wxInvoked the client calls, geoCalls/wxCalls the outbound     *)
(* fetches, lastGeo/lastWx the outcome of this attempt's upstream calls,    *)
(* drawn the index the last getRandomCity call computed, geoOks the         *)
(* reverseGeocode calls that returned a location, pending the outbound      *)
(* calls issued whose client function has not returned yet.                 *)

IdleReq ==
    [pc |-> "idle", attempt |-> 0, city |-> <<>>, call |-> <<>>, timer |-> FALSE,
     geoResult |-> <<>>, weatherData |-> <<>>, res |-> <<>>, sent |-> 0,
     draws |-> 0, sleeps |-> 0, sleptAfter |-> {}, fails |-> 0,
     geoInvoked |-> 0, geoCalls |-> 0, wxInvoked |-> 0, wxCalls |-> 0,
     lastGeo |-> <<>>, lastWx |-> <<>>, drawn |-> 0, geoOks |-> 0, pending |-> 0]

\* fetchWithTimeout up to its await: arm the timer, issue the fetch
fetchWithTimeout(q, lat, lon) ==
    [q EXCEPT !.timer = TRUE, !.call = <<[lat |-> lat, lon |-> lon]>>,
              !.pending = @ + 1]

\* fetchWithTimeout after its await: finally { clearTimeout(timeout) }
fetchSettled(q) == [q EXCEPT !.timer = FALSE]

\* reverseGeocode(latitude, longitude) up to its first await
reverseGeocodeCall(q, lat, lon) ==
    LET f == fetchWithTimeout(q, lat, lon)
    IN  [f EXCEPT !.pc = "geoFetch", !.geoInvoked = @ + 1, !.geoCalls = @ + 1]

\* fetchWeather(latitude, longitude) up to its first await
fetchWeatherCall(q, lat, lon) ==
    LET f == fetchWithTimeout(q, lat, lon)
    IN  [f EXCEPT !.pc = "wxFetch", !.wxInvoked = @ + 1, !.wxCalls = @ + 1]

\* res.status(503).json({error, message}) after the loop
RespondUnavailable(q) ==
    [q EXCEPT !.pc = "done", !.sent = @ + 1,
              !.res = <<[status |-> 503, body |-> ServiceUnavailable]>>]

\* one pass of the loop head and body up to the first await: the loop test,
\* getRandomCity, the log line that reads city.name, reverseGeocode
BeginAttempt(q, cs, index) ==
    IF q.attempt > maxAttempts
    THEN RespondUnavailable(q)
    ELSE LET city == getRandomCity(cs, index)
             d == [q EXCEPT !.city = city, !.draws = @ + 1, !.drawn = index,
                            !.geoResult = <<>>, !.weatherData = <<>>,
                            !.lastGeo = <<>>, !.lastWx = <<>>]
         IN  IF city = <<>>
             THEN [d EXCEPT !.pc = "threw"]
             ELSE reverseGeocodeCall(d, city[1].latitude, city[1].longitude)

\* variant: the guard on the sleep is left out, the last attempt sleeps too
RetryOrGiveUpAlwaysSleeps(q) ==
    LET f == [q EXCEPT !.fails = @ + 1, !.call = <<>>]
    IN  [f EXCEPT !.pc = "sleep", !.sleeps = @ + 1,
                  !.sleptAfter = @ \cup {f.attempt}]

\* if (attempt < maxAttempts) await sleep(retryDelay); continue
\* without the sleep, continue runs attempt++ and the loop test at once
RetryOrGiveUp(q) ==
    LET f == [q EXCEPT !.fails = @ + 1, !.call = <<>>]
    IN  IF f.attempt < maxAttempts
        THEN [f EXCEPT !.pc = "sleep", !.sleeps = @ + 1,
                       !.sleptAfter = @ \cup {f.attempt}]
        ELSE BeginAttempt([f EXCEPT !.attempt = @ + 1], <<>>, 0)

\* variant: the continue of the geocoding failure branch is left out
AfterGeocodeNoContinue(q, outcome, geoResult) ==
    LET g == [q EXCEPT !.lastGeo = <<outcome>>, !.geoResult = geoResult,
                       !.pending = @ - 1,
                       !.geoOks = @ + (IF geoResult # <<>> THEN 1 ELSE 0)]
    IN  fetchWeatherCall(g, g.city[1].latitude, g.city[1].longitude)

\* the handler after reverseGeocode returned geoResult
AfterGeocode(q, outcome, geoResult) ==
    LET g == [q EXCEPT !.lastGeo = <<outcome>>, !.geoResult = geoResult,
                       !.pending = @ - 1,
                       !.geoOks = @ + (IF geoResult # <<>> THEN 1 ELSE 0)]
    IN  IF geoResult = <<>>
        THEN RetryOrGiveUp(g)
        ELSE fetchWeatherCall(g, g.city[1].latitude, g.city[1].longitude)

\* variant: a failed weather fetch ends the request instead of retrying
AfterWeatherGivesUp(q, outcome, weatherData) ==
    LET w == [q EXCEPT !.lastWx = <<outcome>>, !.weatherData = weatherData,
                       !.call = <<>>, !.pending = @ - 1]
    IN  IF WeatherCheckFails(weatherData)
        THEN RespondUnavailable([w EXCEPT !.fails = @ + 1])
        ELSE IF HourlyBuildThrows(weatherData[1].hourly[1])
             THEN [w EXCEPT !.pc = "threw"]
             ELSE [w EXCEPT !.pc = "done", !.sent = @ + 1,
                            !.res = <<[status |-> 200,
                                       body |-> WeatherResponse(w.city[1], w.geoResult[1],
                                                                weatherData[1])]>>]

\* variant: the response is sent without return, the loop goes on
AfterWeatherNoReturn(q, outcome, weatherData) ==
    LET w == [q EXCEPT !.lastWx = <<outcome>>, !.weatherData = weatherData,
                       !.call = <<>>, !.pending = @ - 1]
    IN  IF WeatherCheckFails(weatherData)
        THEN RetryOrGiveUp(w)
        ELSE IF HourlyBuildThrows(weatherData[1].hourly[1])
             THEN [w EXCEPT !.pc = "threw"]
             ELSE IF w.attempt < maxAttempts
                  THEN [w EXCEPT !.pc = "sleep", !.sent = @ + 1,
                                 !.res = <<[status |-> 200,
                                            body |-> WeatherResponse(w.city[1], w.geoResult[1],
                                                                     weatherData[1])]>>]
                  ELSE [w EXCEPT !.pc = "done", !.sent = @ + 1,
                                 !.res = <<[status |-> 200,
                                            body |-> WeatherResponse(w.city[1], w.geoResult[1],
                                                                     weatherData[1])]>>]

\* the handler after fetchWeather returned weatherData
AfterWeather(q, outcome, weatherData) ==
    LET w == [q EXCEPT !.lastWx = <<outcome>>, !.weatherData = weatherData,
                       !.call = <<>>, !.pending = @ - 1]
    IN  IF WeatherCheckFails(weatherData)
        THEN RetryOrGiveUp(w)
        ELSE IF HourlyBuildThrows(weatherData[1].hourly[1])
             THEN [w EXCEPT !.pc = "threw"]
             ELSE [w EXCEPT !.pc = "done", !.sent = @ + 1,
                            !.res = <<[status |-> 200,
                                       body |-> WeatherResponse(w.city[1], w.geoResult[1],
                                                                weatherData[1])]>>]

----------------------------------------------------------------------------
(* The browser view (client/src/App.tsx, kept as src/unnamed/part_001).      *)
(*                                                                         *)
(* weather, loading, error are the three useState cells of App.  conts      *)
(* holds the invocations of fetchRandomWeather that have not finished, each *)
(* with the await it stands at: "fetch", "errorBody" (response.json() of a  *)
(* non-2xx response) or "dataBody" (response.json() of a 2xx response).     *)
(* clicks counts the accepted clicks, failures the runs of the catch block. *)
(* The state updates of one continuation are applied together.              *)

IdleView ==
    [weather |-> <<>>, loading |-> FALSE, error |-> <<>>, conts |-> <<>>,
     clicks |-> 0, failures |-> 0]

\* disabled={loading}
ButtonEnabled(v) == ~v.loading

RemoveAt(seq, i) == SubSeq(seq, 1, i - 1) \o SubSeq(seq, i + 1, Len(seq))

\* setLoading(true); setError(null); fetch('/api/randomWeather')
StartFetch(v) ==
    [v EXCEPT !.loading = TRUE, !.error = <<>>,
              !.conts = Append(@, [phase |-> "fetch"]),
              !.clicks = @ + 1]

\* variant: the catch block does not reset the weather result
CatchKeepsWeather(v, i, message) ==
    [v EXCEPT !.error = <<message>>, !.loading = FALSE,
              !.conts = RemoveAt(@, i), !.failures = @ + 1]

\* catch: setError(err.message); setWeather(null); finally: setLoading(false)
Catch(v, i, message) ==
    [v EXCEPT !.error = <<message>>, !.weather = <<>>, !.loading = FALSE,
              !.conts = RemoveAt(@, i), !.failures = @ + 1]

\* setWeather(data); finally: setLoading(false)
ShowWeather(v, i, data) ==
    [v EXCEPT !.weather = data, !.loading = FALSE, !.conts = RemoveAt(@, i)]

\* errorData.message || 'Failed to fetch weather data'
ThrownMessage(errorData) ==
    IF Truthy(errorData.message) THEN errorData.message[1]
    ELSE "Failed to fetch weather data"

\* bodies of a non-2xx response: parses says whether response.json() resolves
ErrorBodies ==
    { [parses |-> FALSE, message |-> <<>>],
      [parses |-> TRUE, message |-> <<>>],
      [parses |-> TRUE, message |-> <<"">>],
      [parses |-> TRUE, message |-> <<ServiceUnavailable.message>>] }

\* bodies of a 2xx response: <<>> when response.json() rejects
DataBodies ==
    { <<>> } \cup
    { <<WeatherResponse(c,
                        [displayName |-> PlaceName(c.latitude, c.longitude),
                         country |-> CountryOf(c.latitude, c.longitude)],
                        WxObject(<<[temperature_2m |-> <<15>>, wind_speed_10m |-> <<5>>]>>,
                                 <<FullHourly(2)>>, c.latitude, c.longitude))>> :
        c \in {CityA, CityB} }

EndpointStatuses == {200, 500, 503}

----------------------------------------------------------------------------
(* Actions.                                                                 *)

\* variant: the loop counter is one module-level variable of all requests
UpdateSharedAttempt(r, q) ==
    req' = [s \in Reqs |-> IF s = r THEN q ELSE [req[s] EXCEPT !.attempt = q.attempt]]

Update(r, q) == req' = [req EXCEPT ![r] = q]

\* module start: load data/cities.json, exit(1) when that throws
LoadCities ==
    /\ proc = "boot"
    /\ IF LoadExits(file)
       THEN proc' = "exited" /\ UNCHANGED cities
       ELSE proc' = "listening" /\ cities' = file.items
    /\ UNCHANGED <<file, arrivals, req, view>>

\* a request arrives: the handler runs up to its first await
Receive(r) ==
    /\ proc = "listening"
    /\ r \in arrivals
    /\ req[r].pc = "idle"
    /\ \E index \in RandomIndices(cities) :
           Update(r, BeginAttempt([req[r] EXCEPT !.attempt = 1], cities, index))
    /\ UNCHANGED <<file, proc, cities, arrivals, view>>

\* the 10 s timer fires: controller.abort() rejects the pending fetch
GeoTimeout(r) ==
    /\ req[r].pc \in {"geoFetch", "geoBody"}
    /\ req[r].timer
    /\ Update(r, AfterGeocode(fetchSettled(req[r]), Outcome("abort", 0, <<>>), <<>>))
    /\ UNCHANGED <<file, proc, cities, arrivals, view>>

\* fetch rejects: DNS, connection refused, connection reset
GeoNetworkError(r) ==
    /\ req[r].pc = "geoFetch"
    /\ Update(r, AfterGeocode(fetchSettled(req[r]), Outcome("neterr", 0, <<>>), <<>>))
    /\ UNCHANGED <<file, proc, cities, arrivals, view>>

\* fetch resolves with the status line and headers
GeoHeaders(r, status) ==
    /\ req[r].pc = "geoFetch"
    /\ LET q == fetchSettled(req[r])
       IN  IF ResponseOk(status)
           THEN Update(r, [q EXCEPT !.pc = "geoBody",
                                    !.lastGeo = <<Outcome("headers", status, <<>>)>>])
           ELSE Update(r, AfterGeocode(q, Outcome("status", status, <<>>), <<>>))
    /\ UNCHANGED <<file, proc, cities, arrivals, view>>

\* response.json() settles
GeoBody(r) ==
    /\ req[r].pc = "geoBody"
    /\ \E b \in GeoBodies(req[r].call[1].lat, req[r].call[1].lon) :
           Update(r, AfterGeocode(req[r], Outcome("body", req[r].lastGeo[1].status, <<b>>),
                                  reverseGeocodeResult(b)))
    /\ UNCHANGED <<file, proc, cities, arrivals, view>>

WxTimeout(r) ==
    /\ req[r].pc \in {"wxFetch", "wxBody"}
    /\ req[r].timer
    /\ Update(r, AfterWeather(fetchSettled(req[r]), Outcome("abort", 0, <<>>), <<>>))
    /\ UNCHANGED <<file, proc, cities, arrivals, view>>

WxNetworkError(r) ==
    /\ req[r].pc = "wxFetch"
    /\ Update(r, AfterWeather(fetchSettled(req[r]), Outcome("neterr", 0, <<>>), <<>>))
    /\ UNCHANGED <<file, proc, cities, arrivals, view>>

WxHeaders(r, status) ==
    /\ req[r].pc = "wxFetch"
    /\ LET q == fetchSettled(req[r])
       IN  IF ResponseOk(status)
           THEN Update(r, [q EXCEPT !.pc = "wxBody",
                                    !.lastWx = <<Outcome("headers", status, <<>>)>>])
           ELSE Update(r, AfterWeather(q, Outcome("status", status, <<>>), <<>>))
    /\ UNCHANGED <<file, proc, cities, arrivals, view>>

WxBody(r) ==
    /\ req[r].pc = "wxBody"
    /\ \E b \in WxBodies(req[r].call[1].lat, req[r].call[1].lon) :
           Update(r, AfterWeather(req[r], Outcome("body", req[r].lastWx[1].status, <<b>>),
                                  fetchWeatherResult(b)))
    /\ UNCHANGED <<file, proc, cities, arrivals, view>>

\* sleep(retryDelay) resolves: continue, attempt++, the next pass
SleepDone(r) ==
    /\ req[r].pc = "sleep"
    /\ \E index \in RandomIndices(cities) :
           Update(r, BeginAttempt([req[r] EXCEPT !.attempt = @ + 1], cities, index))
    /\ UNCHANGED <<file, proc, cities, arrivals, view>>

Step(r) ==
    \/ Receive(r)
    \/ GeoTimeout(r)
    \/ GeoNetworkError(r)
    \/ \E status \in UpstreamStatuses : GeoHeaders(r, status)
    \/ GeoBody(r)
    \/ WxTimeout(r)
    \/ WxNetworkError(r)
    \/ \E status \in UpstreamStatuses : WxHeaders(r, status)
    \/ WxBody(r)
    \/ SleepDone(r)

InitWith(senders) ==
    /\ file \in DataFiles
    /\ proc = "boot"
    /\ cities = <<>>
    /\ arrivals = senders
    /\ req = [r \in Reqs |-> IdleReq]
    /\ view = IdleView

\* one client sends one request
Init == InitWith({1})

Next == LoadCities \/ \E r \in Reqs : Step(r)

Spec == Init /\ [][Next]_vars

----------------------------------------------------------------------------
(* Two requests in the server at once.  The handlers interleave at their    *)
(* await points; to keep the product of the two handlers small the upstream *)
(* services answer from a reduced set: a timeout or a 2xx status, and one   *)
(* unusable and one usable body each.                                       *)

ConcGeoBodies(lat, lon) ==
    { b \in GeoBodies(lat, lon) :
        b.kind = "null" \/ reverseGeocodeResult(b) # <<>> }

ConcWxBodies(lat, lon) ==
    { NoWxObject("garbage", lat, lon),
      WxObject(<<[temperature_2m |-> <<15>>, wind_speed_10m |-> <<5>>]>>,
               <<FullHourly(2)>>, lat, lon) }

ConcGeoBody(r) ==
    /\ req[r].pc = "geoBody"
    /\ \E b \in ConcGeoBodies(req[r].call[1].lat, req[r].call[1].lon) :
           Update(r, AfterGeocode(req[r], Outcome("body", req[r].lastGeo[1].status, <<b>>),
                                  reverseGeocodeResult(b)))
    /\ UNCHANGED <<file, proc, cities, arrivals, view>>

ConcWxBody(r) ==
    /\ req[r].pc = "wxBody"
    /\ \E b \in ConcWxBodies(req[r].call[1].lat, req[r].call[1].lon) :
           Update(r, AfterWeather(req[r], Outcome("body", req[r].lastWx[1].status, <<b>>),
                                  fetchWeatherResult(b)))
    /\ UNCHANGED <<file, proc, cities, arrivals, view>>

ConcStep(r) ==
    \/ Receive(r)
    \/ GeoTimeout(r)
    \/ GeoHeaders(r, 200)
    \/ ConcGeoBody(r)
    \/ WxTimeout(r)
    \/ WxHeaders(r, 200)
    \/ ConcWxBody(r)
    \/ SleepDone(r)

\* two clients send a request each; the dataset holds two cities
ConcInit ==
    /\ InitWith({1, 2})
    /\ file = [kind |-> "array", items |-> <<CityA, CityB>>]

ConcNext == LoadCities \/ \E r \in Reqs : ConcStep(r)

SpecConc == ConcInit /\ [][ConcNext]_vars

----------------------------------------------------------------------------
(* The browser view against an endpoint that answers 200, a non-2xx status  *)
(* or not at all.                                                           *)

\* onClick={fetchRandomWeather}
Click ==
    /\ ButtonEnabled(view)
    /\ view.clicks < MaxClicks
    /\ view' = StartFetch(view)
    /\ UNCHANGED <<file, proc, cities, arrivals, req>>

\* fetch rejects: the network failed
FetchRejects(i) ==
    /\ i \in DOMAIN view.conts
    /\ view.conts[i].phase = "fetch"
    /\ view' = Catch(view, i, "Failed to fetch")
    /\ UNCHANGED <<file, proc, cities, arrivals, req>>

\* fetch resolves: if (!response.ok) reads the error body, else the data
FetchResolves(i, status) ==
    /\ i \in DOMAIN view.conts
    /\ view.conts[i].phase = "fetch"
    /\ view' = [view EXCEPT !.conts[i].phase =
                                IF ResponseOk(status) THEN "dataBody" ELSE "errorBody"]
    /\ UNCHANGED <<file, proc, cities, arrivals, req>>

\* response.json() of a non-2xx response settles; either way an Error is
\* thrown into the catch block
ErrorBodyRead(i, e) ==
    /\ i \in DOMAIN view.conts
    /\ view.conts[i].phase = "errorBody"
    /\ view' = Catch(view, i, IF e.parses THEN ThrownMessage(e)
                               ELSE "Unexpected token in JSON")
    /\ UNCHANGED <<file, proc, cities, arrivals, req>>

\* response.json() of a 2xx response settles
DataBodyRead(i, d) ==
    /\ i \in DOMAIN view.conts
    /\ view.conts[i].phase = "dataBody"
    /\ view' = IF d = <<>> THEN Catch(view, i, "Unexpected token in JSON")
                ELSE ShowWeather(view, i, d)
    /\ UNCHANGED <<file, proc, cities, arrivals, req>>

ViewInit ==
    /\ InitWith({})
    /\ file = [kind |-> "array", items |-> <<CityA, CityB>>]

ViewNext ==
    \/ Click
    \/ \E i \in 1..MaxClicks :
           \/ FetchRejects(i)
           \/ \E status \in EndpointStatuses : FetchResolves(i, status)
           \/ \E e \in ErrorBodies : ErrorBodyRead(i, e)
           \/ \E d \in DataBodies : DataBodyRead(i, d)

SpecView == ViewInit /\ [][ViewNext]_vars

----------------------------------------------------------------------------
(* Properties.                                                              *)

Responded(r, status) ==
    /\ req[r].pc = "done"
    /\ req[r].res # <<>>
    /\ req[r].res[1].status = status

\* the body the weather call of this attempt delivered, if any
WxBodyOf(r) ==
    IF req[r].lastWx # <<>> /\ req[r].lastWx[1].how = "body"
    THEN req[r].lastWx[1].body
    ELSE <<>>

GeoBodyOf(r) ==
    IF req[r].lastGeo # <<>> /\ req[r].lastGeo[1].how = "body"
    THEN req[r].lastGeo[1].body
    ELSE <<>>

\* the weather service answered 2xx with a current section and an hourly
\* section holding the three arrays
WeatherDelivered(r) ==
    /\ WxBodyOf(r) # <<>>
    /\ WxBodyOf(r)[1].kind = "object"
    /\ WxBodyOf(r)[1].current # <<>>
    /\ WxBodyOf(r)[1].hourly # <<>>
    /\ WxBodyOf(r)[1].hourly[1].time # <<>>
    /\ WxBodyOf(r)[1].hourly[1].temperature_2m # <<>>
    /\ WxBodyOf(r)[1].hourly[1].wind_speed_10m # <<>>

HoursDelivered(r) == Len(WxBodyOf(r)[1].hourly[1].time[1])

HoursReturned(r) == Len(req[r].res[1].body.forecast.hourly)

\* C1: when the geocoding call and the weather call of attempt k <= 10 both
\* succeed, the request is answered 200 and forecast.hourly has exactly
\* min(24, n) entries, n being the number of hourly time entries delivered;
\* every 200 response has that length.
C1_HourlyLength ==
    \A r \in Reqs :
        /\ WeatherDelivered(r) =>
              /\ req[r].attempt \in 1..maxAttempts
              /\ req[r].fails = req[r].attempt - 1
              /\ Responded(r, 200)
        /\ Responded(r, 200) =>
              /\ WxBodyOf(r) # <<>>
              /\ HoursReturned(r) = Min(24, HoursDelivered(r))

\* a 200 response on a later attempt whose upstream hourly data was longer
\* than 24 entries
C1_Witness ==
    \E r \in Reqs :
        /\ Responded(r, 200)
        /\ req[r].attempt > 1
        /\ HoursDelivered(r) > 24
        /\ HoursReturned(r) = 24

\* C2: a request whose 10 attempts all failed is answered 503 with the fixed
\* body after exactly 10 city draws and exactly 9 delays, one after each of
\* the attempts 1..9; a 503 is sent in no other case.
C2_Exhaustion ==
    \A r \in Reqs :
        /\ req[r].fails = 10 =>
              /\ Responded(r, 503)
              /\ req[r].res[1].body = ServiceUnavailable
              /\ req[r].sent = 1
              /\ req[r].draws = 10
              /\ req[r].sleeps = 9
              /\ req[r].sleptAfter = 1..9
        /\ Responded(r, 503) => req[r].fails = 10

\* a 503 after some attempts failed in geocoding and some in the weather call
C2_Witness ==
    \E r \in Reqs :
        /\ Responded(r, 503)
        /\ req[r].wxCalls > 0
        /\ req[r].wxCalls < req[r].geoCalls

Ended(r) == req[r].pc \in {"done", "threw"}

\* C3: every request is answered exactly once, with status 200 or 503,
\* whatever the upstream services deliver; stated for a loaded dataset that
\* holds at least one city.
C3_OneResponse200Or503 ==
    \A r \in Reqs :
        /\ req[r].sent <= 1
        /\ (Len(cities) > 0 /\ Ended(r)) =>
              /\ req[r].sent = 1
              /\ req[r].res # <<>>
              /\ req[r].res[1].status \in {200, 503}

\* C4: no failure of an upstream call or of the content of its response
\* ends in an exception that leaves the handler.
C4_NoExceptionEscapes ==
    \A r \in Reqs :
        (req[r].lastGeo # <<>> \/ req[r].lastWx # <<>>) => req[r].pc # "threw"

\* C5: the process serves requests only with a non-empty city list, and
\* every city the handler draws is a record of the loaded dataset.
C5_DrawnCityInDataset ==
    /\ proc = "listening" => Len(cities) > 0
    /\ \A r \in Reqs :
           req[r].draws > 0 =>
              /\ req[r].city # <<>>
              /\ \E i \in DOMAIN cities : cities[i] = req[r].city[1]

\* C6: in a 200 response the coordinates are those of the city drawn on the
\* succeeding attempt, not the geocoder's own, and the display name,
\* country, timezone and forecast come from the upstream responses to the
\* requests made with that city's coordinates.
C6_ResponseFromSameAttempt ==
    \A r \in Reqs :
        Responded(r, 200) =>
            LET body == req[r].res[1].body
                drawnCity == cities[req[r].drawn + 1]
                geo == GeoBodyOf(r)[1]
                wx == WxBodyOf(r)[1]
            IN  /\ body.chosenPlace.latitude = drawnCity.latitude
                /\ body.chosenPlace.longitude = drawnCity.longitude
                /\ geo.qlat = drawnCity.latitude /\ geo.qlon = drawnCity.longitude
                /\ wx.qlat = drawnCity.latitude /\ wx.qlon = drawnCity.longitude
                /\ body.chosenPlace.latitude # geo.lat
                /\ body.chosenPlace.longitude # geo.lon
                /\ body.chosenPlace.displayName = geo.display_name[1]
                /\ body.chosenPlace.country = geo.address[1].country[1]
                /\ body.chosenPlace.timezone = wx.timezone
                /\ body.forecast.current.temperature = wx.current[1].temperature_2m
                /\ body.forecast.current.windSpeed = wx.current[1].wind_speed_10m
                /\ \A i \in DOMAIN body.forecast.hourly :
                       body.forecast.hourly[i].time = wx.hourly[1].time[1][i]

\* a 200 response for the second city of the dataset after a failed attempt
C6_Witness ==
    \E r \in Reqs :
        /\ Responded(r, 200)
        /\ req[r].attempt > 1
        /\ req[r].drawn = 1
        /\ req[r].res[1].body.chosenPlace.latitude = CityB.latitude

InFlight(r) == req[r].pc \in {"geoFetch", "geoBody", "wxFetch", "wxBody"}

\* C7: while an upstream call is pending, headers or body, the timer that
\* abandons it is armed.
C7_PendingCallHasTimer ==
    \A r \in Reqs : InFlight(r) => req[r].timer

\* an optional string that is there and not empty
HasText(m) == m # <<>> /\ m[1] # ""

\* the outcome reverseGeocode ended with in the current attempt, if it ended
GeoReturned(r) ==
    req[r].lastGeo # <<>> /\ req[r].lastGeo[1].how # "headers"

GeoUsable(o) ==
    /\ o.how = "body"
    /\ ResponseOk(o.status)
    /\ o.body[1].kind = "object"
    /\ HasText(o.body[1].display_name)
    /\ o.body[1].address # <<>>
    /\ HasText(o.body[1].address[1].country)

\* C8: reverseGeocode makes one outbound call per invocation, returns
\* {displayName, country} exactly when the call completed with a 2xx status
\* and the body holds a display name and a country, otherwise returns null,
\* and never throws.
C8_ReverseGeocodeContract ==
    \A r \in Reqs :
        /\ req[r].geoCalls = req[r].geoInvoked
        /\ GeoReturned(r) =>
              LET o == req[r].lastGeo[1]
              IN  /\ (req[r].geoResult # <<>>) <=> GeoUsable(o)
                  /\ req[r].geoResult # <<>> =>
                        req[r].geoResult[1] =
                            [displayName |-> o.body[1].display_name[1],
                             country |-> o.body[1].address[1].country[1]]
                  /\ req[r].lastWx = <<>> => req[r].pc # "threw"

\* reverseGeocode returned a location on a later attempt
C8_Witness ==
    \E r \in Reqs :
        /\ GeoReturned(r)
        /\ req[r].geoResult # <<>>
        /\ req[r].attempt > 1
        /\ req[r].geoCalls = req[r].attempt

WxReturned(r) ==
    req[r].lastWx # <<>> /\ req[r].lastWx[1].how # "headers"

WxFailed(r) ==
    /\ WxReturned(r)
    /\ LET o == req[r].lastWx[1]
       IN  \/ o.how \in {"abort", "neterr", "status"}
           \/ o.body[1].kind # "object"
           \/ o.body[1].current = <<>>
           \/ o.body[1].hourly = <<>>

GeoFailed(r) == GeoReturned(r) /\ ~GeoUsable(req[r].lastGeo[1])

\* what the handler does with a failed attempt: no response and a sleep
\* while attempts remain, the 503 after the last one
FailureHandled(r) ==
    \/ /\ req[r].attempt < maxAttempts
       /\ req[r].pc = "sleep"
       /\ req[r].sent = 0
       /\ req[r].sleeps = req[r].attempt
       /\ req[r].attempt \in req[r].sleptAfter
       /\ req[r].fails = req[r].attempt
    \/ /\ req[r].attempt = maxAttempts + 1
       /\ Responded(r, 503)
       /\ req[r].sleeps = maxAttempts - 1
       /\ req[r].fails = maxAttempts

\* C9: a weather call that ends in a transport error, a timeout, a non-2xx
\* status or a body without the current or the hourly section fails the
\* attempt, and the attempt is handled as after a geocoding failure.
C9_WeatherFailureRetries ==
    \A r \in Reqs :
        /\ WxFailed(r) => FailureHandled(r)
        /\ GeoFailed(r) => FailureHandled(r)
        /\ (WxReturned(r) /\ req[r].pc = "sleep") => WxFailed(r)

\* the handler sleeps after a weather body that lacks a section
C9_Witness ==
    \E r \in Reqs :
        /\ WxFailed(r)
        /\ req[r].lastWx[1].how = "body"
        /\ req[r].lastWx[1].body[1].kind = "object"
        /\ req[r].pc = "sleep"

\* C10: a 200 response on attempt k follows exactly k city draws, k
\* geocoding calls and k-1 delays, one after each failed attempt, and once
\* a response is sent the request does nothing more.
C10_ReturnOnFirstSuccess ==
    /\ [](\A r \in Reqs :
            /\ req[r].sent > 0 => req[r].pc = "done"
            /\ Responded(r, 200) =>
                  /\ req[r].draws = req[r].attempt
                  /\ req[r].geoCalls = req[r].attempt
                  /\ req[r].fails = req[r].attempt - 1
                  /\ req[r].sleeps = req[r].attempt - 1
                  /\ req[r].sleptAfter = 1..(req[r].attempt - 1))
    /\ [][\A r \in Reqs : req[r].pc = "done" => req'[r] = req[r]]_vars

\* a 200 response on a third or later attempt, after failures of both kinds
C10_Witness ==
    \E r \in Reqs :
        /\ Responded(r, 200)
        /\ req[r].attempt >= 3
        /\ req[r].wxCalls > 1
        /\ req[r].wxCalls < req[r].geoCalls

\* C11: the weather call of an attempt is issued only after the geocoding
\* call of that attempt returned a location, with the coordinates of the
\* same city; a request never has two upstream calls pending; the weather
\* calls never outnumber the successful geocoding calls, which are at most 10.
C11_SequentialCalls ==
    \A r \in Reqs :
        /\ req[r].pending <= 1
        /\ InFlight(r) <=> req[r].pending = 1
        /\ req[r].pc \in {"wxFetch", "wxBody"} =>
              /\ req[r].geoResult # <<>>
              /\ GeoReturned(r)
              /\ GeoUsable(req[r].lastGeo[1])
              /\ req[r].lastGeo[1].body[1].qlat = req[r].city[1].latitude
              /\ req[r].lastGeo[1].body[1].qlon = req[r].city[1].longitude
              /\ req[r].call = <<[lat |-> req[r].city[1].latitude,
                                  lon |-> req[r].city[1].longitude]>>
        /\ req[r].wxCalls = req[r].wxInvoked
        /\ req[r].wxCalls <= req[r].geoOks
        /\ req[r].geoOks <= req[r].geoCalls
        /\ req[r].geoOks <= 10

\* the weather call of the tenth attempt is pending after a geocoding
\* success, earlier attempts having failed in either call
C11_Witness ==
    \E r \in Reqs :
        /\ req[r].pc = "wxFetch"
        /\ req[r].attempt = 10
        /\ req[r].geoOks > 1
        /\ req[r].geoOks < req[r].geoCalls
        /\ req[r].wxCalls = req[r].geoOks

\* the i-th element of an upstream array, undefined when it has none
UpstreamAt(arr, i) == IF i \in DOMAIN arr THEN <<arr[i]>> ELSE <<>>

\* C13: the hourly entries of a 200 response keep the upstream order, and
\* entry i holds the i-th upstream time, temperature_2m and wind_speed_10m.
C13_HourlyAligned ==
    \A r \in Reqs :
        Responded(r, 200) =>
            LET hourly == req[r].res[1].body.forecast.hourly
                up == WxBodyOf(r)[1].hourly[1]
            IN  /\ \A i \in 1..Len(hourly) :
                       /\ hourly[i].time = up.time[1][i]
                       /\ hourly[i].temperature = UpstreamAt(up.temperature_2m[1], i)
                       /\ hourly[i].windSpeed = UpstreamAt(up.wind_speed_10m[1], i)
                /\ \A i, j \in 1..Len(hourly) :
                       i < j => hourly[i].time < hourly[j].time

\* a 200 response cut to 24 entries, the last of which carries the 24th
\* upstream temperature and wind speed
C13_Witness ==
    \E r \in Reqs :
        /\ Responded(r, 200)
        /\ HoursDelivered(r) > 24
        /\ HoursReturned(r) = 24
        /\ req[r].res[1].body.forecast.hourly[24].temperature = <<224>>
        /\ req[r].res[1].body.forecast.hourly[24].windSpeed = <<524>>

\* what a request's own draws and upstream results determine: its
\* counters follow its attempt number, its calls carry the coordinates of
\* the city it drew, and its 200 response is built from its own upstream
\* bodies
OwnHistory(r) ==
    /\ req[r].pc # "idle" =>
          /\ req[r].draws = Min(req[r].attempt, maxAttempts)
          /\ req[r].geoCalls = req[r].draws
          /\ req[r].city = <<cities[req[r].drawn + 1]>>
          /\ req[r].fails = (IF req[r].pc = "sleep" THEN req[r].attempt
                             ELSE Min(req[r].attempt, maxAttempts + 1) - 1)
          /\ req[r].sleeps = Min(req[r].fails, maxAttempts - 1)
          /\ req[r].sleptAfter = 1..req[r].sleeps
    /\ InFlight(r) =>
          req[r].call = <<[lat |-> req[r].city[1].latitude,
                           lon |-> req[r].city[1].longitude]>>
    /\ Responded(r, 503) => req[r].fails = maxAttempts
    /\ Responded(r, 200) =>
          /\ req[r].res[1].body.chosenPlace.latitude = req[r].city[1].latitude
          /\ req[r].res[1].body.chosenPlace.longitude = req[r].city[1].longitude
          /\ GeoBodyOf(r)[1].qlat = req[r].city[1].latitude
          /\ WxBodyOf(r)[1].qlat = req[r].city[1].latitude
          /\ req[r].res[1].body.chosenPlace.displayName = GeoBodyOf(r)[1].display_name[1]
          /\ req[r].res[1].body.chosenPlace.timezone = WxBodyOf(r)[1].timezone

\* C12: with two requests in the server under every interleaving, no step
\* of a request writes the city list or the state of the other request,
\* and each request's attempt counter, city, delays and outcome are those
\* its own draws and upstream results give.
C12_IndependentRequests ==
    /\ [](\A r \in Reqs : OwnHistory(r))
    /\ [][/\ proc = "listening" => cities' = cities
          /\ \A r, s \in Reqs :
                 r # s => (req'[r] = req[r] \/ req'[s] = req[s])]_vars

\* the geocoding calls of the first attempts of two requests are pending
\* together, for different cities, no delay taken by either
C12_Witness ==
    \E r, s \in Reqs :
        /\ r # s
        /\ req[r].pc = "geoFetch" /\ req[s].pc = "geoFetch"
        /\ req[r].attempt = 1 /\ req[s].attempt = 1
        /\ req[r].sleeps = 0 /\ req[s].sleeps = 0
        /\ req[r].drawn # req[s].drawn

\* C14: in the browser view, clicks being accepted only while loading is
\* false, at most one fetch is in flight, the error message and the weather
\* result are never both set, with no fetch in flight loading is false, a
\* failed fetch clears the weather result and a new fetch clears the error.
C14_ViewState ==
    /\ [](/\ Len(view.conts) <= 1
          /\ ~(view.error # <<>> /\ view.weather # <<>>)
          /\ Len(view.conts) = 0 => ~view.loading)
    /\ [][/\ view'.clicks > view.clicks => (view'.error = <<>> /\ view'.loading)
          /\ view'.failures > view.failures =>
                (view'.weather = <<>> /\ view'.error # <<>>)]_vars

\* a fetch fails while the result of an earlier fetch is displayed: the
\* result is gone and the message is shown
C14_Witness ==
    /\ view.clicks >= 3
    /\ view.failures >= 2
    /\ Len(view.conts) = 0
    /\ view.error = <<ServiceUnavailable.message>>
    /\ view.weather = <<>>

====
